---- MODULE Spec2Model ----
(***************************************************************************)
(* Model of api_diagnostic.py: check_api_status(url) issues one HTTP GET   *)
(* and prints a report on the status code, the CORS header and the body    *)
(* format.  Text is a sequence of one-character strings; the report is the *)
(* sequence of lines written to standard output.                           *)
(***************************************************************************)
EXTENDS Integers, Sequences, FiniteSets, TLC

VARIABLES pc, response, data, out, gets, exc

vars == <<pc, response, data, out, gets, exc>>

(* ------------------------------ bounds --------------------------------- *)

\* every text over Alphabet of at most this length is a possible body
MaxBodyLen == 2

\* the largest flat JSON array offered as a body has this many elements
ArrElems == 100

\* the longest non-JSON body offered has this many characters
RawLen == 301

(* --------------------------- program constants ------------------------- *)

API_URL == "https://emarknews-v2-production.up.railway.app/api/world/fast"

PreviewLimit == 500

RawLimit == 300

Indent == 2

Marker == <<".", ".", ".">>

CorsName == "access-control-allow-origin"

None == "<None>"

(* ------------------------------ text ----------------------------------- *)

Min(a, b) == IF a < b THEN a ELSE b

\* s[:n] of Python for n >= 0
Take(s, n) == SubSeq(s, 1, Min(n, Len(s)))

Rep(c, n) == [i \in 1..n |-> c]

Alphabet == {"[", "]", "1", ",", "x"}

Texts(n) == UNION {[1..k -> Alphabet] : k \in 0..n}

\* a text that is not JSON and whose characters differ along its length
Pattern(n) == [i \in 1..n |-> IF i % 3 = 1 THEN "x" ELSE IF i % 3 = 2 THEN "1" ELSE ","]

\* the compact text of a flat array of n ones: [1,1,...,1]
FlatArray(n) == <<"[">> \o [i \in 1..(2 * n - 1) |-> IF i % 2 = 1 THEN "1" ELSE ","] \o <<"]">>

(* ------------------------------ JSON ----------------------------------- *)

Num(n) == [t |-> "num", n |-> n, items |-> <<>>]

Arr(items) == [t |-> "arr", n |-> 0, items |-> items]

NoVal == [t |-> "none", n |-> 0, items |-> <<>>]

ParseFail == [ok |-> FALSE, val |-> NoVal]

ParseOk(v) == [ok |-> TRUE, val |-> v]

\* the bracket depth of s after position k, counted from position lo
Depth(s, lo, k) ==
    Cardinality({q \in lo..k : s[q] = "["}) - Cardinality({q \in lo..k : s[q] = "]"})

\* the positions in lo..hi of the commas that are inside no bracket of lo..hi
TopCommas(s, lo, hi) == {k \in lo..hi : s[k] = "," /\ Depth(s, lo, k) = 0}

SetMax(S) == CHOOSE p \in S : \A q \in S : q <= p

SetMin(S) == CHOOSE p \in S : \A q \in S : p <= q

RECURSIVE ParseValue(_, _, _)
RECURSIVE ParseItems(_, _, _, _)
\* json.loads restricted to Alphabet, on the whole of s[lo..hi]:
\* value ::= 1+ | [] | [ value (, value)* ]
ParseValue(s, lo, hi) ==
    IF lo > hi THEN ParseFail
    ELSE IF \A k \in lo..hi : s[k] = "1" THEN ParseOk(Num(hi - lo + 1))
    ELSE IF s[lo] = "[" /\ s[hi] = "]" /\ lo < hi THEN
        IF hi = lo + 1 THEN ParseOk(Arr(<<>>))
        ELSE LET parts == ParseItems(s, TopCommas(s, lo + 1, hi - 1), lo + 1, hi - 1)
             IN IF \A j \in 1..Len(parts) : parts[j].ok
                THEN ParseOk(Arr([j \in 1..Len(parts) |-> parts[j].val]))
                ELSE ParseFail
    ELSE ParseFail

\* the parse results, in order, of the parts of s[lo..hi] that the commas cs separate
ParseItems(s, cs, lo, hi) ==
    LET mid == (lo + hi) \div 2
        left == {c \in cs : lo <= c /\ c <= mid}
        right == {c \in cs : mid < c /\ c <= hi}
    IN IF left = {} /\ right = {} THEN <<ParseValue(s, lo, hi)>>
       ELSE LET c == IF left # {} THEN SetMax(left) ELSE SetMin(right)
            IN ParseItems(s, cs, lo, c - 1) \o ParseItems(s, cs, c + 1, hi)

\* the whole text must be one value: anything else is a decode error
Loads(s) == ParseValue(s, 1, Len(s))

NLIndent(level) == <<"\n">> \o Rep(" ", Indent * level)

RECURSIVE Dumps(_, _)
RECURSIVE JoinItems(_, _, _, _)
\* json.dumps(v, indent=2): one item per line, nested items indented further
Dumps(v, level) ==
    IF v.t = "num" THEN Rep("1", v.n)
    ELSE IF v.items = <<>> THEN <<"[", "]">>
    ELSE <<"[">> \o NLIndent(level + 1) \o JoinItems(v.items, 1, Len(v.items), level + 1)
                 \o NLIndent(level) \o <<"]">>

\* the items lo..hi of an array, separated by a comma and a line break
JoinItems(items, lo, hi, level) ==
    IF lo = hi THEN Dumps(items[lo], level)
    ELSE LET mid == (lo + hi) \div 2 IN
         JoinItems(items, lo, mid, level) \o <<",">> \o NLIndent(level)
             \o JoinItems(items, mid + 1, hi, level)

(* --------------------------- the environment --------------------------- *)

\* status codes an HTTP client can hand over (three digits), around every
\* boundary of the classification
StatusCodes == {100, 199, 200, 204, 299, 300, 399, 400, 403, 404, 405, 499,
                500, 503, 599, 600, 999}

CorsSpellings == {"Access-Control-Allow-Origin", "access-control-allow-origin"}

CorsValues == {"*", "", "https://example.com"}

\* header names compare without regard to case
Lower(name) == IF name \in CorsSpellings THEN CorsName ELSE name

BaseHeaders == ("content-type" :> "text/plain")

HeaderMaps == {BaseHeaders} \cup {BaseHeaders @@ (n :> v) : n \in CorsSpellings, v \in CorsValues}

Bodies == Texts(MaxBodyLen)
            \cup {FlatArray(n) : n \in (ArrElems - 1)..ArrElems}
            \cup {Pattern(n) : n \in (RawLimit - 1)..RawLen}
            \cup {<<"[", "1", ",", "[", "1", "1", "]", ",", "[", "]", "]">>}

Responses == [status_code : StatusCodes, headers : HeaderMaps, text : Bodies]

NoResponse == [status_code |-> 0, headers |-> <<>>, text |-> <<>>]

\* the classes of an exception class, itself included (its method resolution order)
Ancestors(cls) ==
    CASE cls = "ConnectTimeout" -> {"ConnectTimeout", "ConnectionError", "Timeout", "RequestException", "Exception"}
      [] cls = "ReadTimeout" -> {"ReadTimeout", "Timeout", "RequestException", "Exception"}
      [] cls = "ConnectionError" -> {"ConnectionError", "RequestException", "Exception"}
      [] cls = "SSLError" -> {"SSLError", "ConnectionError", "RequestException", "Exception"}
      [] cls = "InvalidURL" -> {"InvalidURL", "RequestException", "ValueError", "Exception"}
      [] cls = "RequestsJSONDecodeError" -> {"RequestsJSONDecodeError", "InvalidJSONError", "RequestException", "JSONDecodeError", "ValueError", "Exception"}
      [] cls = "RecursionError" -> {"RecursionError", "RuntimeError", "Exception"}
      [] cls = "MemoryError" -> {"MemoryError", "Exception"}
      [] cls = "RuntimeError" -> {"RuntimeError", "Exception"}
      [] OTHER -> {cls}

\* str(e) of an exception of the class
ErrText(cls) ==
    CASE cls = "ConnectTimeout" -> "connect timed out"
      [] cls = "ReadTimeout" -> "read timed out"
      [] cls = "ConnectionError" -> "name or service not known"
      [] cls = "SSLError" -> "certificate verify failed"
      [] cls = "InvalidURL" -> "invalid url"
      [] cls = "RequestsJSONDecodeError" -> "expecting value"
      [] cls = "RecursionError" -> "maximum recursion depth exceeded"
      [] cls = "MemoryError" -> ""
      [] OTHER -> "failure"

Exc(cls) == [cls |-> cls, msg |-> ErrText(cls)]

NoExc == [cls |-> None, msg |-> ""]

TimeoutErrors == {"ConnectTimeout", "ReadTimeout"}

TransportErrors == {"ConnectionError", "SSLError", "InvalidURL"}

UnexpectedErrors == {"RuntimeError", "RecursionError", "MemoryError"}

\* what requests.get can raise
FetchErrors == TimeoutErrors \cup TransportErrors \cup {"RuntimeError"}

\* what response.json() can raise besides the decode error
JsonFaults == {"RecursionError", "MemoryError"}

\* what json.dumps can raise
DumpsFaults == {"RecursionError", "MemoryError"}

(* ------------------------------ output --------------------------------- *)

Line(k, code, s, t) == [k |-> k, code |-> code, s |-> s, t |-> t]

Msg(k) == Line(k, 0, "", <<>>)

MsgS(k, s) == Line(k, 0, s, <<>>)

MsgT(k, t) == Line(k, 0, "", t)

\* Classify with the range test for 4xx placed before the test for 404
ClassifyRangeFirst(code) ==
    IF 200 <= code /\ code < 300 THEN Msg("MsgSuccess")
    ELSE IF 400 <= code /\ code < 500 THEN Msg("MsgClient")
    ELSE IF code = 404 THEN Msg("MsgNotFound")
    ELSE IF 500 <= code /\ code < 600 THEN Msg("MsgServer")
    ELSE Msg("MsgUnknownStatus")

\* Classify with a strict lower bound on the success range
ClassifyStrictLower(code) ==
    IF 200 < code /\ code < 300 THEN Msg("MsgSuccess")
    ELSE IF code = 404 THEN Msg("MsgNotFound")
    ELSE IF 400 <= code /\ code < 500 THEN Msg("MsgClient")
    ELSE IF 500 <= code /\ code < 600 THEN Msg("MsgServer")
    ELSE Msg("MsgUnknownStatus")

\* the message for a status code, first match wins
Classify(code) ==
    IF 200 <= code /\ code < 300 THEN Msg("MsgSuccess")
    ELSE IF code = 404 THEN Msg("MsgNotFound")
    ELSE IF 400 <= code /\ code < 500 THEN Msg("MsgClient")
    ELSE IF 500 <= code /\ code < 600 THEN Msg("MsgServer")
    ELSE Msg("MsgUnknownStatus")

\* response.headers.get(name): the value, or None without such a header
HeadersGet(h, name) ==
    LET ms == {n \in DOMAIN h : Lower(n) = Lower(name)} IN
    IF ms = {} THEN None ELSE h[CHOOSE n \in ms : TRUE]

\* truth value of a str-or-None in an if
Truthy(v) == v # None /\ v # ""

\* what the CORS step prints for the header value
CorsLines(cors_header) ==
    IF Truthy(cors_header)
    THEN <<MsgS("CorsValue", cors_header),
           IF cors_header = "*" THEN Msg("CorsAll") ELSE MsgS("CorsOnly", cors_header)>>
    ELSE <<Msg("CorsAbsent"), Msg("CorsAbsentHint")>>

PreviewLine(d) == MsgT("JsonPreview", Take(Dumps(d, 0), PreviewLimit) \o Marker)

RawLine(text) == MsgT("RawPreview", Take(text, RawLimit) \o Marker)

(* ---------------------------- exception flow --------------------------- *)

\* InnerHandlers without the clause for the decode error
InnerHandlersNone == <<>>

\* the except clauses of the body step's try, in order
InnerHandlers == <<"JSONDecodeError">>

\* OuterHandlers without the catch-all clause
OuterHandlersNoCatchAll == <<"Timeout", "RequestException">>

\* OuterHandlers with the general request clause placed before the timeout clause
OuterHandlersGeneralFirst == <<"RequestException", "Timeout", "Exception">>

\* the except clauses of the function's try, in order
OuterHandlers == <<"Timeout", "RequestException", "Exception">>

\* the first clause that catches the class; 0 when none does
Match(handlers, cls) ==
    LET hits == {i \in 1..Len(handlers) : handlers[i] \in Ancestors(cls)} IN
    IF hits = {} THEN 0 ELSE SetMin(hits)

\* OuterLine that leaves the exception out of the request-failure message
OuterLineNoText(h, e) ==
    IF h = "Timeout" THEN Msg("ErrTimeout")
    ELSE IF h = "RequestException" THEN MsgS("ErrRequest", "")
    ELSE MsgS("ErrUnknown", e.msg)

\* what the clause of the function's try prints
OuterLine(h, e) ==
    IF h = "Timeout" THEN Msg("ErrTimeout")
    ELSE IF h = "RequestException" THEN MsgS("ErrRequest", e.msg)
    ELSE MsgS("ErrUnknown", e.msg)

\* an exception leaves the function's try block
RaiseOuter(e, o) ==
    LET i == Match(OuterHandlers, e.cls) IN
    /\ exc' = e
    /\ IF i = 0
       THEN out' = o /\ pc' = "raised"
       ELSE out' = Append(o, OuterLine(OuterHandlers[i], e)) /\ pc' = "done"

\* an exception is raised inside the body step's try block
RaiseInner(e, o) ==
    IF Match(InnerHandlers, e.cls) # 0
    THEN /\ exc' = e
         /\ out' = o \o <<Msg("NotJson"), RawLine(response.text)>>
         /\ pc' = "done"
    ELSE RaiseOuter(e, o)

(* ------------------------------ actions -------------------------------- *)

Init ==
    /\ pc = "start"
    /\ response = NoResponse
    /\ data = NoVal
    /\ out = <<>>
    /\ gets = 0
    /\ exc = NoExc

\* line 14
Start ==
    /\ pc = "start"
    /\ out' = Append(out, MsgS("Start", API_URL))
    /\ pc' = "get"
    /\ UNCHANGED <<response, data, gets, exc>>

\* Fetch that issues the GET again after a timeout
FetchRetry ==
    /\ pc = "get"
    /\ gets' = gets + 1
    /\ \/ \E r \in Responses :
            /\ response' = r
            /\ pc' = "status"
            /\ UNCHANGED <<out, exc>>
       \/ \E cls \in FetchErrors :
            IF "Timeout" \in Ancestors(cls)
            THEN exc' = Exc(cls) /\ UNCHANGED <<pc, out, response>>
            ELSE RaiseOuter(Exc(cls), out) /\ UNCHANGED response
    /\ UNCHANGED data

\* line 18: the one GET, which returns a response or raises
Fetch ==
    /\ pc = "get"
    /\ gets' = gets + 1
    /\ \/ \E r \in Responses :
            /\ response' = r
            /\ pc' = "status"
            /\ UNCHANGED <<out, exc>>
       \/ \E cls \in FetchErrors :
            /\ RaiseOuter(Exc(cls), out)
            /\ UNCHANGED response
    /\ UNCHANGED data

\* StatusStep that returns right after reporting a status that is not a success
StatusStepEarlyReturn ==
    /\ pc = "status"
    /\ out' = out \o <<Line("StatusHeader", response.status_code, "", <<>>),
                       Classify(response.status_code)>>
    /\ pc' = IF Classify(response.status_code) = Msg("MsgSuccess") THEN "cors" ELSE "done"
    /\ UNCHANGED <<response, data, gets, exc>>

\* lines 21-31
StatusStep ==
    /\ pc = "status"
    /\ out' = out \o <<Line("StatusHeader", response.status_code, "", <<>>),
                       Classify(response.status_code)>>
    /\ pc' = "cors"
    /\ UNCHANGED <<response, data, gets, exc>>

\* lines 34-44
CorsStep ==
    /\ pc = "cors"
    /\ out' = (out \o <<Msg("CorsHeader")>>) \o CorsLines(HeadersGet(response.headers, CorsName))
    /\ pc' = "json"
    /\ UNCHANGED <<response, data, gets, exc>>

\* lines 47-49: response.json() returns the parsed body or raises
BodyParse ==
    /\ pc = "json"
    /\ LET o == Append(out, Msg("BodyHeader")) IN
       \/ /\ Loads(response.text).ok
          /\ data' = Loads(response.text).val
          /\ out' = o
          /\ pc' = "dumps"
          /\ UNCHANGED exc
       \/ /\ ~Loads(response.text).ok
          /\ RaiseInner(Exc("RequestsJSONDecodeError"), o)
          /\ UNCHANGED data
       \/ \E cls \in JsonFaults :
          /\ RaiseInner(Exc(cls), o)
          /\ UNCHANGED data
    /\ UNCHANGED <<response, gets>>

\* BodyPreview that reports a failure of json.dumps and still prints a preview
BodyPreviewResume ==
    /\ pc = "dumps"
    /\ LET o == Append(out, Msg("JsonValid")) IN
       \/ /\ out' = Append(o, PreviewLine(data))
          /\ pc' = "done"
          /\ UNCHANGED exc
       \/ \E cls \in DumpsFaults :
          /\ exc' = Exc(cls)
          /\ out' = o \o <<MsgS("ErrUnknown", ErrText(cls)), RawLine(response.text)>>
          /\ pc' = "done"
    /\ UNCHANGED <<response, data, gets>>

\* lines 50-51: json.dumps returns the serialization or raises
BodyPreview ==
    /\ pc = "dumps"
    /\ LET o == Append(out, Msg("JsonValid")) IN
       \/ /\ out' = Append(o, PreviewLine(data))
          /\ pc' = "done"
          /\ UNCHANGED exc
       \/ \E cls \in DumpsFaults : RaiseInner(Exc(cls), o)
    /\ UNCHANGED <<response, data, gets>>

Next ==
    \/ Start
    \/ Fetch
    \/ StatusStep
    \/ CorsStep
    \/ BodyParse
    \/ BodyPreview

Spec == Init /\ [][Next]_vars

\* lines 65-66: the exit code of the process
ExitCode == IF pc = "raised" THEN 1 ELSE 0

(* ------------------------------ properties ----------------------------- *)

Received == response.status_code # 0

Has(k) == \E i \in 1..Len(out) : out[i].k = k

Count(K) == Cardinality({i \in 1..Len(out) : out[i].k \in K})

Last(k) == Len(out) > 0 /\ out[Len(out)].k = k

IsTimeout(cls) == "Timeout" \in Ancestors(cls)

SectionHeads == {"StatusHeader", "CorsHeader", "BodyHeader"}

AllSections == <<"StatusHeader", "CorsHeader", "BodyHeader">>

\* lines that belong to one of the three sections
SectionKinds == SectionHeads \cup {"MsgSuccess", "MsgNotFound", "MsgClient", "MsgServer",
    "MsgUnknownStatus", "CorsValue", "CorsAll", "CorsOnly", "CorsAbsent",
    "CorsAbsentHint", "JsonValid", "JsonPreview", "NotJson", "RawPreview"}

\* the section headers printed so far, in the order printed
Sections ==
    LET hs == SelectSeq(out, LAMBDA l : l.k \in SectionHeads) IN
    [i \in 1..Len(hs) |-> hs[i].k]

FailureKinds == {"ErrTimeout", "ErrRequest", "ErrUnknown"}

ClassKinds == {"MsgSuccess", "MsgNotFound", "MsgClient", "MsgServer", "MsgUnknownStatus"}

\* the messages whose text calls the finding an error
ErrorKinds == {"MsgNotFound", "MsgClient", "MsgServer", "ErrTimeout", "ErrRequest", "ErrUnknown"}

\* the first n characters of s, written without Take
FirstChars(s, n) == [i \in 1..(IF Len(s) < n THEN Len(s) ELSE n) |-> s[i]]

\* the last two lines of the report
Tail2 == SubSeq(out, Len(out) - 1, Len(out))

\* the position of a program point in the order of execution
Rank(p) ==
    CASE p = "start" -> 0
      [] p = "get" -> 1
      [] p = "status" -> 2
      [] p = "cors" -> 3
      [] p = "json" -> 4
      [] p = "dumps" -> 5
      [] OTHER -> 6

\* C1: whatever the fetch and the inspection steps do (response, timeout,
\* transport failure, decode failure, unexpected exception), no exception
\* reaches the caller and the run ends in the finished state with exit code
\* 0: no state has a propagated exception, and every step moves forward in
\* the program, whose last point is the return.
C1_AlwaysReturns ==
    /\ [](pc # "raised" /\ ExitCode = 0)
    /\ [][Rank(pc') > Rank(pc) /\ (exc' # exc => pc' = "done")]_vars

C1_Witness == pc = "done" /\ Received /\ exc.cls \in UnexpectedErrors /\ ExitCode = 0

\* C2: after a timeout of the GET the report holds the timeout message, no
\* line of the status, CORS or body sections, and neither the
\* request-failure nor the unknown-error message.
C2_TimeoutReport ==
    IsTimeout(exc.cls) =>
        /\ pc = "done"
        /\ Last("ErrTimeout")
        /\ Count({"ErrTimeout"}) = 1
        /\ Count(SectionKinds) = 0
        /\ Count({"ErrRequest", "ErrUnknown"}) = 0

C2_Witness == pc = "done" /\ exc.cls = "ConnectTimeout" /\ "RequestException" \in Ancestors(exc.cls)

\* C3: after a transport failure of the GET that is not a timeout, the report
\* holds the request-failure message with the text of the exception, and no
\* line of the status, CORS or body sections.
C3_TransportReport ==
    exc.cls \in TransportErrors =>
        /\ pc = "done"
        /\ out[Len(out)] = MsgS("ErrRequest", ErrText(exc.cls))
        /\ Count(FailureKinds) = 1
        /\ Count(SectionKinds) = 0

C3_Witness == pc = "done" /\ exc.cls = "ConnectionError" /\ Last("ErrRequest")

\* the mapping of the specification, by membership in the ranges
RefKind(code) ==
    IF code \in 200..299 THEN "MsgSuccess"
    ELSE IF code = 404 THEN "MsgNotFound"
    ELSE IF code \in (400..499) \ {404} THEN "MsgClient"
    ELSE IF code \in 500..599 THEN "MsgServer"
    ELSE "MsgUnknownStatus"

\* C4: once the status step has run, the report holds exactly one
\* classification message, right after the line with the status code, and it
\* is the one the reference mapping gives; 404 never gives the client message.
C4_StatusMapping ==
    (Received /\ pc # "status") =>
        /\ Count(ClassKinds) = 1
        /\ \A i \in 1..Len(out) : out[i].k \in ClassKinds =>
              /\ out[i].k = RefKind(response.status_code)
              /\ i > 1
              /\ out[i - 1] = Line("StatusHeader", response.status_code, "", <<>>)
        /\ (response.status_code = 404 => ~Has("MsgClient"))

C4_Witness == pc = "cors" /\ response.status_code = 404 /\ Has("MsgNotFound")

\* C5 as stated: for a status in [200,299], whatever the headers and the
\* body, the report holds the success message and no message that calls the
\* finding an error.
C5_NoErrorWording ==
    (Received /\ pc # "status" /\ response.status_code \in 200..299) =>
        Has("MsgSuccess") /\ Count(ErrorKinds) = 0

\* C5 amended: for a status in [200,299], whatever the headers and the body,
\* the report holds the success message and no status-error, timeout or
\* request-failure message; the unknown-error message is the only error
\* message that can appear, as the last line, and only when an unexpected
\* exception interrupts the body step.
C5_SuccessWording ==
    (Received /\ pc # "status" /\ response.status_code \in 200..299) =>
        /\ Has("MsgSuccess")
        /\ Count(ErrorKinds \ {"ErrUnknown"}) = 0
        /\ Has("ErrUnknown") <=> (pc = "done" /\ exc.cls \in UnexpectedErrors)
        /\ Has("ErrUnknown") => Last("ErrUnknown")

C5_Witness ==
    /\ pc = "done"
    /\ response.status_code = 204
    /\ Has("CorsAbsent")
    /\ Has("NotJson")
    /\ Has("MsgSuccess")

CorsPresent == \E n \in DOMAIN response.headers : Lower(n) = CorsName

\* C6 as stated: once the CORS step has run, a header with value * gives the
\* all-origins message, a header with any other value (the empty string
\* included) gives the single-origin message with that value, and the absence
\* message is printed exactly when the response has no such header.
C6_CorsOutcome ==
    (Received /\ pc \in {"json", "dumps", "done"}) =>
        /\ Count({"CorsAll", "CorsOnly", "CorsAbsent"}) = 1
        /\ Has("CorsAbsent") <=> ~CorsPresent
        /\ \A n \in DOMAIN response.headers : Lower(n) = CorsName =>
              IF response.headers[n] = "*"
              THEN Has("CorsAll")
              ELSE \E i \in 1..Len(out) : out[i] = MsgS("CorsOnly", response.headers[n])

C8_SingleGet == gets <= 1 /\ (pc \notin {"start", "get"} => gets = 1)

C8_Witness == pc = "done" /\ gets = 1 /\ IsTimeout(exc.cls)

\* C9: when a response was received and no unexpected exception occurred, the
\* finished report holds the three sections, once each, in the order status,
\* CORS, body, each with one finding, whatever the status code and headers.
C9_AllSections ==
    (Received /\ pc = "done" /\ exc.cls \notin UnexpectedErrors) =>
        /\ Sections = AllSections
        /\ Count(ClassKinds) = 1
        /\ Count({"CorsAll", "CorsOnly", "CorsAbsent"}) = 1
        /\ Count({"JsonValid", "NotJson"}) = 1

C9_Witness ==
    /\ pc = "done"
    /\ response.status_code = 500
    /\ Has("CorsAbsent")
    /\ Sections = AllSections

\* C10: in every state the section headers printed so far are a prefix of
\* status, CORS, body; at most one top-level failure message has been
\* printed, and it is the last line of the report.
C10_PrefixAndLastFailure ==
    /\ \E n \in 0..3 : Sections = SubSeq(AllSections, 1, n)
    /\ Count(FailureKinds) <= 1
    /\ \A i \in 1..Len(out) : out[i].k \in FailureKinds => i = Len(out)

C10_Witness == pc = "done" /\ Has("ErrUnknown") /\ Sections = AllSections /\ Has("JsonValid")

====
